---- MODULE Spec2Model ----
(***************************************************************************)
(* A model of tag_parser/basetags.py: the template tag base classes        *)
(* BaseNode, BaseInclusionNode and BaseAssignmentOrInclusionNode.          *)
(*                                                                         *)
(* Python values are modelled as strings, Python dicts as functions whose  *)
(* DOMAIN is the set of keys present, tuples and lists as sequences.  A    *)
(* template context is a stack of dicts (the last one is the top) and an   *)
(* autoescape flag.                                                        *)
(***************************************************************************)
EXTENDS Integers, Sequences, FiniteSets, TLC

VARIABLES
    cls,        \* the class attributes of the tag class in use
    node,       \* the node object: its fields, or not constructed yet
    context,    \* the template context the node is rendered in
    out,        \* what the last call did: arguments received, result, exception
    hist        \* history of the node: renders made, get_template calls made,
                \* and whether one of them failed or gave an empty node list

vars == <<cls, node, context, out, hist>>

-----------------------------------------------------------------------------
(* Bounds of the model *)

\* the largest number of positional arguments in a tag invocation
MaxArgs == 3
\* the largest value of min_args / max_args
MaxBound == 2
\* the deepest context stack
MaxDepth == 2
\* the number of render calls on one node
MaxRenders == 3

-----------------------------------------------------------------------------
(* Python values *)

\* Python's None
NoneV == "<None>"

\* truth value of a Python string-or-None: None and '' are false
Truthy(v) == v # NoneV /\ v # ""

\* the empty dict
EmptyDict == [k \in {} |-> NoneV]

\* d[k] = v on a dict
DictSet(d, k, v) == [kk \in (DOMAIN d) \cup {k} |-> IF kk = k THEN v ELSE d[kk]]

\* dict.get(k, default)
DictGet(d, k, default) == IF k \in DOMAIN d THEN d[k] ELSE default

\* a bound of the argument count: None, or a number
NoneBound == [isNone |-> TRUE, n |-> 0]
SomeBound(k) == [isNone |-> FALSE, n |-> k]
Bounds == {NoneBound} \cup {SomeBound(k) : k \in 0..MaxBound}

\* no exception raised
NoExc == ""

-----------------------------------------------------------------------------
(* The tag classes *)

\* the three classes of basetags.py
Kinds == {"BaseNode", "BaseInclusionNode", "BaseAssignmentOrInclusionNode"}

\* kinds that derive from BaseInclusionNode
IsInclusion(kind) == kind \in {"BaseInclusionNode", "BaseAssignmentOrInclusionNode"}

\* the class attribute allowed_kwargs, a tuple: () on BaseNode, ('template',) on
\* BaseInclusionNode and what derives from it
allowed_kwargs(kind) == IF IsInclusion(kind) THEN <<"template">> ELSE << >>

\* the class attribute context_value_name of BaseAssignmentOrInclusionNode
context_value_name == "value"

\* A tag class: one of the three classes, or a subclass of it that sets the
\* class attributes and (overrides = TRUE) implements the hook the base class
\* leaves to raise NotImplementedError: render_tag, get_context_data or get_value.
TagClass(kind, ak, mn, mx, ca, ck, tn, ov) ==
    [kind |-> kind, allowed_kwargs |-> ak,
     min_args |-> mn, max_args |-> mx,
     compile_args |-> ca, compile_kwargs |-> ck,
     template_name |-> tn, overrides |-> ov]

\* the node before any is constructed
NoNode ==
    [constructed |-> FALSE, tag_name |-> "", args |-> << >>, kwargs |-> EmptyDict,
     as_var |-> NoneV, has_nodelist |-> FALSE, nodelist |-> << >>]

\* BaseNode.__init__: the node stores the parsed tag name and arguments; it has
\* no as_var attribute and no nodelist attribute yet
BaseNode_init(tag_name, args, kwargs) ==
    [constructed |-> TRUE, tag_name |-> tag_name, args |-> args, kwargs |-> kwargs,
     as_var |-> NoneV, has_nodelist |-> FALSE, nodelist |-> << >>]

\* BaseAssignmentOrInclusionNode.__init__: the base constructor, then as_var
BaseAssignmentOrInclusionNode_init(tag_name, as_var, args, kwargs) ==
    [BaseNode_init(tag_name, args, kwargs) EXCEPT !.as_var = as_var]

-----------------------------------------------------------------------------
(* validate_args *)

\* a call that returned
Returned == [exc |-> NoExc, msg |-> ""]

\* a call that raised exception exc with message template msg
Raised(exc, msg) == [exc |-> exc, msg |-> msg]

\* validate_args without its second check: max_args is never looked at
validate_args_no_max(c, tag_name, args, kwargs) ==
    IF ~c.min_args.isNone /\ Len(args) < c.min_args.n
    THEN Raised("TemplateSyntaxError", "'{0}' tag requires at least {1} arguments")
    ELSE Returned

\* BaseNode.validate_args: the syntax error raised for the positional arguments
\* args under the class's min_args and max_args, or none
validate_args(c, tag_name, args, kwargs) ==
    IF ~c.min_args.isNone /\ Len(args) < c.min_args.n
    THEN IF c.min_args.n = 1
         THEN Raised("TemplateSyntaxError", "'{0}' tag requires at least {1} argument")
         ELSE Raised("TemplateSyntaxError", "'{0}' tag requires at least {1} arguments")
    ELSE IF ~c.max_args.isNone /\ Len(args) > c.max_args.n
    THEN IF c.max_args.n = 0
         THEN IF Len(c.allowed_kwargs) > 0
              THEN Raised("TemplateSyntaxError",
                          "'{0}' tag only allows keywords arguments, for example {1}=\"...\".")
              ELSE Raised("TemplateSyntaxError", "'{0}' tag doesn't support any arguments")
         ELSE IF c.max_args.n = 1
         THEN Raised("TemplateSyntaxError", "'{0}' tag only allows {1} argument.")
         ELSE Raised("TemplateSyntaxError", "'{0}' tag only allows {1} arguments.")
    ELSE Returned

-----------------------------------------------------------------------------
(* tag_parser.parser: the token of a tag invocation and its parsing *)

\* A token is the sequence of the bits of a tag invocation.  A bit is a
\* positional word (k = "") or a keyword argument k=e.
Pos(e) == [k |-> "", e |-> e]
Kw(k, e) == [k |-> k, e |-> e]

\* parser.compile_filter: the filter expression object compiled from a word
compile_filter(e) == [token |-> e]

\* an argument as the parser stores it: compiled to a filter expression, or raw
Compile(flag, e) == IF flag THEN compile_filter(e) ELSE e

\* the elements of the tuple t
Elems(t) == {t[i] : i \in 1..Len(t)}

\* the positional arguments among bits, in order
RECURSIVE PositionalArgs(_, _)
PositionalArgs(bits, flag) ==
    IF bits = << >> THEN << >>
    ELSE IF Head(bits).k = ""
         THEN <<Compile(flag, Head(bits).e)>> \o PositionalArgs(Tail(bits), flag)
         ELSE PositionalArgs(Tail(bits), flag)

\* the keyword arguments among bits; a later one replaces an earlier one of
\* the same name
RECURSIVE KeywordArgs(_, _, _)
KeywordArgs(bits, flag, acc) ==
    IF bits = << >> THEN acc
    ELSE IF Head(bits).k # ""
         THEN KeywordArgs(Tail(bits), flag,
                          DictSet(acc, Head(bits).k, Compile(flag, Head(bits).e)))
         ELSE KeywordArgs(Tail(bits), flag, acc)

\* parse_token_kwargs: the tag name, the positional arguments and the
\* recognized keyword arguments of a token; a keyword that is not allowed is a
\* syntax error
parse_token_kwargs(bits, allowed, compile_args, compile_kwargs) ==
    LET kwargs == KeywordArgs(Tail(bits), compile_kwargs, EmptyDict)
    IN  IF \E k \in DOMAIN kwargs : k \notin Elems(allowed)
        THEN [exc |-> "TemplateSyntaxError", tag_name |-> Head(bits).e,
              args |-> << >>, kwargs |-> EmptyDict]
        ELSE [exc |-> NoExc, tag_name |-> Head(bits).e,
              args |-> PositionalArgs(Tail(bits), compile_args), kwargs |-> kwargs]

\* parse_as_var: a trailing "as <name>" is cut off the bits and names the
\* variable to assign
parse_as_var(bits) ==
    IF Len(bits) > 2 /\ bits[Len(bits) - 1] = Pos("as")
    THEN [bits |-> SubSeq(bits, 1, Len(bits) - 2), as_var |-> bits[Len(bits)].e]
    ELSE [bits |-> bits, as_var |-> NoneV]

\* no positional word follows a keyword argument
RECURSIVE KeywordsLast(_)
KeywordsLast(bits) ==
    IF Len(bits) < 2 THEN TRUE
    ELSE IF bits[1].k # "" /\ bits[2].k = "" THEN FALSE
    ELSE KeywordsLast(Tail(bits))

-----------------------------------------------------------------------------
(* parse *)

\* the result of a parse call: the exception raised, or the node returned
ParseRaised(r) == [exc |-> r.exc, msg |-> r.msg, node |-> NoNode]
ParseReturned(n) == [exc |-> NoExc, msg |-> "", node |-> n]

\* parse without the call of validate_args
BaseNode_parse_unvalidated(c, token) ==
    LET p == parse_token_kwargs(token, c.allowed_kwargs, c.compile_args, c.compile_kwargs)
    IN  IF p.exc # NoExc THEN ParseRaised(Raised(p.exc, "")) 
        ELSE ParseReturned(BaseNode_init(p.tag_name, p.args, p.kwargs))

\* BaseNode.parse: parse the token, validate the arguments, construct the node
BaseNode_parse(c, token) ==
    LET p == parse_token_kwargs(token, c.allowed_kwargs, c.compile_args, c.compile_kwargs)
    IN  IF p.exc # NoExc THEN ParseRaised(Raised(p.exc, ""))
        ELSE LET v == validate_args(c, p.tag_name, p.args, p.kwargs)
             IN  IF v.exc # NoExc THEN ParseRaised(v)
                 ELSE ParseReturned(BaseNode_init(p.tag_name, p.args, p.kwargs))

\* the allowed keywords BaseAssignmentOrInclusionNode.parse passes on
AssignmentAllowed(c) == <<"template">> \o c.allowed_kwargs

\* BaseAssignmentOrInclusionNode.parse: cut off "as var", parse the rest,
\* validate the positional arguments, construct the node with as_var
BaseAssignmentOrInclusionNode_parse(c, token) ==
    LET a == parse_as_var(token)
        p == parse_token_kwargs(a.bits, AssignmentAllowed(c),
                                c.compile_args, c.compile_kwargs)
    IN  IF p.exc # NoExc THEN ParseRaised(Raised(p.exc, ""))
        ELSE LET v == validate_args(c, p.tag_name, p.args, EmptyDict)
             IN  IF v.exc # NoExc THEN ParseRaised(v)
                 ELSE ParseReturned(
                        BaseAssignmentOrInclusionNode_init(p.tag_name, a.as_var,
                                                           p.args, p.kwargs))

-----------------------------------------------------------------------------
(* Parsing: the tag classes, the tokens and the calls of parse and          *)
(* validate_args                                                            *)

\* all tuples over S of length at most n
RECURSIVE TuplesUpTo(_, _)
TuplesUpTo(S, n) ==
    IF n = 0 THEN {<< >>}
    ELSE LET shorter == TuplesUpTo(S, n - 1)
         IN  shorter \cup {Append(t, x) : t \in {u \in shorter : Len(u) = n - 1}, x \in S}

\* the words a positional bit is drawn from
PosWords == {"x"}

\* the keyword parts of the tokens
KwParts ==
    { << >>,
      <<Kw("template", "x")>>,
      <<Kw("limit", "x")>>,
      <<Kw("template", "x"), Kw("template", "'t1'")>> }

\* the ends of the tokens: nothing, a lone "as", or "as y"
AsParts == { << >>, <<Pos("as")>>, <<Pos("as"), Pos("y")>> }

\* the tokens: the tag name, positional words, keyword arguments, "as y"
Tokens ==
    { <<Pos("my_tag")>> \o [i \in 1..Len(ws) |-> Pos(ws[i])] \o kws \o tl :
        ws \in TuplesUpTo(PosWords, MaxArgs), kws \in KwParts, tl \in AsParts }

\* the keyword arguments validate_args is called with
KwargsGiven == { EmptyDict, [k \in {"template"} |-> "x"], [k \in {"limit", "as"} |-> "x"] }

\* the settings of compile_args and compile_kwargs
CompileFlags == { <<TRUE, TRUE>>, <<TRUE, FALSE>>, <<FALSE, TRUE>> }

\* the allowed_kwargs of the classes of a kind: the kind's own, or ('limit',)
\* set by a subclass of BaseNode
AllowedOf(kind) ==
    IF kind = "BaseNode" THEN { << >>, <<"limit">> } ELSE { allowed_kwargs(kind) }

\* the tag classes parsed with: each class, with every min_args and max_args
ParseClasses ==
    UNION { { TagClass(kind, ak, mn, mx, f[1], f[2], NoneV, TRUE) :
                ak \in AllowedOf(kind), mn \in Bounds, mx \in Bounds, f \in CompileFlags } :
            kind \in Kinds }

\* no context: parsing has none, and the empty string is rendered in none
NoContext == [dicts |-> << >>, autoescape |-> TRUE]

\* no call made yet
NoCall == [op |-> "none"]

InitParse ==
    /\ cls \in ParseClasses
    /\ node = NoNode
    /\ context = NoContext
    /\ out = NoCall
    /\ hist = [renders |-> 0, loads |-> 0, bad_load |-> FALSE]

\* The calls below are class methods: they read the class attributes and keep
\* nothing from one call to the next, so a behaviour makes one call.

\* a call cls.validate_args(tag_name, *args, **kwargs)
CallValidateArgs ==
    /\ out = NoCall
    /\ \E args \in TuplesUpTo({"x"}, MaxArgs), kwargs \in KwargsGiven :
        LET v == validate_args(cls, "my_tag", args, kwargs)
        IN  out' = [op |-> "validate_args", args |-> args, kwargs |-> kwargs,
                    exc |-> v.exc, msg |-> v.msg]
    /\ UNCHANGED <<cls, node, context, hist>>

\* a call cls.parse(parser, token) on BaseNode or BaseInclusionNode
CallParse ==
    /\ out = NoCall
    /\ cls.kind # "BaseAssignmentOrInclusionNode"
    /\ \E token \in Tokens :
        /\ KeywordsLast(token)
        /\ LET r == BaseNode_parse(cls, token)
           IN  /\ node' = r.node
               /\ out' = [op |-> "parse", token |-> token, exc |-> r.exc, msg |-> r.msg]
    /\ UNCHANGED <<cls, context, hist>>

\* a call cls.parse(parser, token) on BaseAssignmentOrInclusionNode
CallParseAssignment ==
    /\ out = NoCall
    /\ cls.kind = "BaseAssignmentOrInclusionNode"
    /\ \E token \in Tokens :
        /\ KeywordsLast(parse_as_var(token).bits)
        /\ LET r == BaseAssignmentOrInclusionNode_parse(cls, token)
           IN  /\ node' = r.node
               /\ out' = [op |-> "parse", token |-> token, exc |-> r.exc, msg |-> r.msg]
    /\ UNCHANGED <<cls, context, hist>>

NextParse == CallValidateArgs \/ CallParse \/ CallParseAssignment

SpecParse == InitParse /\ [][NextParse]_vars

-----------------------------------------------------------------------------
(* django.template.Context as basetags.py uses it: a stack of dicts, looked  *)
(* up from the top, written at the top                                       *)

\* Context(data, autoescape=...): a new context holding data
NewContext(data, autoescape) == [dicts |-> <<data>>, autoescape |-> autoescape]

\* context.has_key(key): some dict of the stack has the key
ContextHasKey(ctx, key) == \E i \in 1..Len(ctx.dicts) : key \in DOMAIN ctx.dicts[i]

\* the topmost dict of the stack that has the key (0: none)
TopmostWith(ctx, key) ==
    IF ContextHasKey(ctx, key)
    THEN CHOOSE i \in 1..Len(ctx.dicts) :
            /\ key \in DOMAIN ctx.dicts[i]
            /\ \A j \in (i + 1)..Len(ctx.dicts) : key \notin DOMAIN ctx.dicts[j]
    ELSE 0

\* context.get(key, otherwise): the value in the topmost dict that has the key
ContextGet(ctx, key, otherwise) ==
    IF ContextHasKey(ctx, key) THEN ctx.dicts[TopmostWith(ctx, key)][key] ELSE otherwise

\* context[key], for a key the context has
ContextGetItem(ctx, key) == ctx.dicts[TopmostWith(ctx, key)][key]

\* context[key] = value: written to the top dict of the stack
ContextSetItem(ctx, key, value) ==
    [ctx EXCEPT !.dicts[Len(ctx.dicts)] = DictSet(ctx.dicts[Len(ctx.dicts)], key, value)]

-----------------------------------------------------------------------------
(* get_request and get_context *)

\* get_request that looks for the request in the top dict only
get_request_top_only(n, ctx) ==
    IF "request" \notin DOMAIN ctx.dicts[Len(ctx.dicts)]
    THEN [exc |-> "ImproperlyConfigured", value |-> NoneV, context |-> ctx]
    ELSE [exc |-> NoExc, value |-> ContextGetItem(ctx, "request"), context |-> ctx]

\* BaseNode.get_request: the value of 'request' in the context, or the
\* configuration error; with the context as the call leaves it
get_request(n, ctx) ==
    IF ~ContextHasKey(ctx, "request")
    THEN [exc |-> "ImproperlyConfigured", value |-> NoneV, context |-> ctx]
    ELSE [exc |-> NoExc, value |-> ContextGetItem(ctx, "request"), context |-> ctx]

\* get_context that lets the data's own csrf_token win over the parent's
get_context_keep_own(parent_context, data) ==
    LET new_context == NewContext(data, parent_context.autoescape)
        csrf_token == ContextGet(parent_context, "csrf_token", NoneV)
    IN  IF csrf_token # NoneV /\ "csrf_token" \notin DOMAIN data
        THEN [new_context |-> ContextSetItem(new_context, "csrf_token", csrf_token),
              parent_context |-> parent_context]
        ELSE [new_context |-> new_context, parent_context |-> parent_context]

\* get_context that merges the data into the parent context and returns it
get_context_into_parent(parent_context, data) ==
    LET top == Len(parent_context.dicts)
        merged == [parent_context EXCEPT !.dicts[top] =
                      [k \in (DOMAIN parent_context.dicts[top]) \cup (DOMAIN data) |->
                          IF k \in DOMAIN data THEN data[k]
                          ELSE parent_context.dicts[top][k]]]
    IN  [new_context |-> merged, parent_context |-> merged]

\* BaseInclusionNode.get_context: a new context of the data with the parent's
\* autoescape flag, and the parent's csrf_token when it is not None; with the
\* parent context as the call leaves it
get_context(parent_context, data) ==
    LET new_context == NewContext(data, parent_context.autoescape)
        csrf_token == ContextGet(parent_context, "csrf_token", NoneV)
    IN  IF csrf_token # NoneV
        THEN [new_context |-> ContextSetItem(new_context, "csrf_token", csrf_token),
              parent_context |-> parent_context]
        ELSE [new_context |-> new_context, parent_context |-> parent_context]

-----------------------------------------------------------------------------
(* Contexts: the calls of get_request and get_context on every context      *)

\* all dicts with keys among the domain of vals, the value of key k in vals[k]
DictsOver(vals) ==
    UNION { [ks -> UNION {vals[k] : k \in ks}] : ks \in SUBSET (DOMAIN vals) }

\* the dicts with the right values under each key
TypedDicts(vals) == { d \in DictsOver(vals) : \A k \in DOMAIN d : d[k] \in vals[k] }

\* the dicts a parent context is stacked of
ParentDicts ==
    TypedDicts([k \in {"request", "csrf_token"} |->
                    IF k = "request" THEN {NoneV, "req"} ELSE {NoneV, "tok1", "tok2"}])

\* the data get_context is called with
DataDicts ==
    TypedDicts([k \in {"value", "csrf_token"} |->
                    IF k = "value" THEN {"v1"} ELSE {NoneV, "own"}])

\* the parent contexts: every stack of one to MaxDepth dicts, escaping or not
ParentContexts ==
    { [dicts |-> ds, autoescape |-> a] :
        ds \in TuplesUpTo(ParentDicts, MaxDepth) \ {<< >>}, a \in BOOLEAN }

InitContext ==
    /\ cls = TagClass("BaseInclusionNode", allowed_kwargs("BaseInclusionNode"),
                      SomeBound(0), SomeBound(0), TRUE, TRUE, NoneV, TRUE)
    /\ node = BaseNode_init("my_tag", << >>, EmptyDict)
    /\ context \in ParentContexts
    /\ out = NoCall
    /\ hist = [renders |-> 0, loads |-> 0, bad_load |-> FALSE]

\* a call node.get_request(context)
CallGetRequest ==
    LET r == get_request(node, context)
    IN  /\ out' = [op |-> "get_request", exc |-> r.exc, value |-> r.value,
                   before |-> context]
        /\ context' = r.context
        /\ UNCHANGED <<cls, node, hist>>

\* a call node.get_context(context, data)
CallGetContext ==
    \E data \in DataDicts :
        LET r == get_context(context, data)
        IN  /\ out' = [op |-> "get_context", data |-> data,
                       new_context |-> r.new_context, before |-> context]
            /\ context' = r.parent_context
            /\ UNCHANGED <<cls, node, hist>>

NextContext == CallGetRequest \/ CallGetContext

SpecContext == InitContext /\ [][NextContext]_vars

-----------------------------------------------------------------------------
(* Templates, filter expressions and output *)

\* the templates the loader knows, each with its node list
TemplateNames == {"t1", "t2", "empty"}
TemplateNodes(name) ==
    CASE name = "t1" -> <<"n1">>
      [] name = "t2" -> <<"n2">>
      [] OTHER       -> << >>

\* get_template(name): the template's node list, or TemplateDoesNotExist
get_template(name) ==
    IF name \in TemplateNames
    THEN [exc |-> NoExc, nodelist |-> TemplateNodes(name)]
    ELSE [exc |-> "TemplateDoesNotExist", nodelist |-> << >>]

\* the words that are string literals, the others name a variable
LiteralWords == {"'t1'"}
LiteralValue(w) == "t1"

\* expr.resolve(context): the literal's value, or the variable's value in the
\* context, or '' when the context has no such variable
resolve(expr, ctx) ==
    IF expr.token \in LiteralWords THEN LiteralValue(expr.token)
    ELSE ContextGet(ctx, expr.token, "")

\* the empty string u''
EmptyString == [text |-> "", nodes |-> << >>, ctx |-> NoContext]

\* the output text of a render_tag a subclass of BaseNode implements
TagOutput(text) == [text |-> text, nodes |-> << >>, ctx |-> NoContext]

\* nodelist.render(new_context): the output of the nodes in the context; an
\* empty node list renders as the empty string
RenderNodeList(nodes, new_context) ==
    IF nodes = << >> THEN EmptyString
    ELSE [text |-> "rendered", nodes |-> nodes, ctx |-> new_context]

-----------------------------------------------------------------------------
(* render and render_tag *)

\* What a call of render_tag did: the exception raised or the output returned,
\* the node and the context as the call leaves them, the names get_template
\* was called with and the contexts a node list was rendered with.
Effect(exc, result, n, ctx, loaded, rendered) ==
    [exc |-> exc, result |-> result, node |-> n, context |-> ctx,
     loaded |-> loaded, rendered |-> rendered]

\* BaseNode.render_tag: not implemented, unless a subclass returns its output
BaseNode_render_tag(c, n, ctx, tag_args, tag_kwargs, h) ==
    IF c.overrides
    THEN Effect(NoExc, TagOutput(h.text), n, ctx, << >>, << >>)
    ELSE Effect("NotImplementedError", EmptyString, n, ctx, << >>, << >>)

\* BaseInclusionNode.get_template_name: the 'template' keyword argument, or
\* the class's template_name
get_template_name(c, tag_args, tag_kwargs) ==
    DictGet(tag_kwargs, "template", c.template_name)

\* BaseAssignmentOrInclusionNode.get_value: not implemented, unless a subclass
\* returns a value (h.value)
get_value(c, tag_args, tag_kwargs, h) ==
    IF c.overrides THEN [exc |-> NoExc, value |-> h.value]
    ELSE [exc |-> "NotImplementedError", value |-> NoneV]

\* get_context_data: on BaseInclusionNode not implemented unless a subclass
\* returns a dict (h.data); on BaseAssignmentOrInclusionNode the dict
\* {context_value_name: get_value(...)}
get_context_data(c, parent_context, tag_args, tag_kwargs, h) ==
    IF c.kind = "BaseAssignmentOrInclusionNode"
    THEN LET v == get_value(c, tag_args, tag_kwargs, h)
         IN  [exc |-> v.exc, data |-> [k \in {context_value_name} |-> v.value]]
    ELSE IF c.overrides THEN [exc |-> NoExc, data |-> h.data]
    ELSE [exc |-> "NotImplementedError", data |-> EmptyDict]

\* the template is loaded on every render
NeedsTemplate_always(n) == TRUE

\* not getattr(self, 'nodelist', None): the node has no node list yet, or an
\* empty one
NeedsTemplate(n) == ~(n.has_nodelist /\ Len(n.nodelist) > 0)

\* BaseInclusionNode.render_tag: load the template unless its nodes are cached
\* on the node, compute the data, wrap it in a new context, render the nodes
BaseInclusionNode_render_tag(c, n, ctx, tag_args, tag_kwargs, h) ==
    LET name == get_template_name(c, tag_args, tag_kwargs)
        tpl == get_template(name)
        loaded == IF NeedsTemplate(n) THEN <<name>> ELSE << >>
    IN  IF NeedsTemplate(n) /\ tpl.exc # NoExc
        THEN Effect(tpl.exc, EmptyString, n, ctx, loaded, << >>)
        ELSE LET n1 == IF NeedsTemplate(n)
                       THEN [n EXCEPT !.has_nodelist = TRUE, !.nodelist = tpl.nodelist]
                       ELSE n
                 d == get_context_data(c, ctx, tag_args, tag_kwargs, h)
             IN  IF d.exc # NoExc
                 THEN Effect(d.exc, EmptyString, n1, ctx, loaded, << >>)
                 ELSE LET r == get_context(ctx, d.data)
                      IN  Effect(NoExc, RenderNodeList(n1.nodelist, r.new_context),
                                 n1, r.parent_context, loaded,
                                 <<[nodes |-> n1.nodelist, ctx |-> r.new_context]>>)

\* render_tag that assigns the value and then goes on to render the template
BaseAssignmentOrInclusionNode_render_tag_falls_through(c, n, ctx, tag_args, tag_kwargs, h) ==
    IF Truthy(n.as_var)
    THEN LET v == get_value(c, tag_args, tag_kwargs, h)
         IN  IF v.exc # NoExc
             THEN Effect(v.exc, EmptyString, n, ctx, << >>, << >>)
             ELSE BaseInclusionNode_render_tag(c, n, ContextSetItem(ctx, n.as_var, v.value),
                                               tag_args, tag_kwargs, h)
    ELSE BaseInclusionNode_render_tag(c, n, ctx, tag_args, tag_kwargs, h)

\* BaseAssignmentOrInclusionNode.render_tag: with as_var, assign the value in
\* the context and return u''; without, render as BaseInclusionNode does
BaseAssignmentOrInclusionNode_render_tag(c, n, ctx, tag_args, tag_kwargs, h) ==
    IF Truthy(n.as_var)
    THEN LET v == get_value(c, tag_args, tag_kwargs, h)
         IN  IF v.exc # NoExc
             THEN Effect(v.exc, EmptyString, n, ctx, << >>, << >>)
             ELSE Effect(NoExc, EmptyString, n, ContextSetItem(ctx, n.as_var, v.value),
                         << >>, << >>)
    ELSE BaseInclusionNode_render_tag(c, n, ctx, tag_args, tag_kwargs, h)

\* self.render_tag(context, *tag_args, **tag_kwargs): the render_tag of the
\* node's class; what it did, with the arguments it received
render_tag(c, n, ctx, tag_args, tag_kwargs, h) ==
    LET e == CASE c.kind = "BaseNode" ->
                    BaseNode_render_tag(c, n, ctx, tag_args, tag_kwargs, h)
               [] c.kind = "BaseInclusionNode" ->
                    BaseInclusionNode_render_tag(c, n, ctx, tag_args, tag_kwargs, h)
               [] c.kind = "BaseAssignmentOrInclusionNode" ->
                    BaseAssignmentOrInclusionNode_render_tag(c, n, ctx, tag_args,
                                                             tag_kwargs, h)
    IN  [exc |-> e.exc, result |-> e.result, node |-> e.node, context |-> e.context,
         loaded |-> e.loaded, rendered |-> e.rendered,
         tag_args |-> tag_args, tag_kwargs |-> tag_kwargs]

\* the positional arguments passed on in reverse order
ResolveArgs_reversed(c, n, ctx) ==
    IF c.compile_args
    THEN [i \in 1..Len(n.args) |-> resolve(n.args[Len(n.args) + 1 - i], ctx)]
    ELSE [i \in 1..Len(n.args) |-> n.args[Len(n.args) + 1 - i]]

\* tag_args of BaseNode.render: the stored expressions resolved against the
\* context when compile_args is set, the stored values otherwise
ResolveArgs(c, n, ctx) ==
    IF c.compile_args
    THEN [i \in 1..Len(n.args) |-> resolve(n.args[i], ctx)]
    ELSE n.args

\* tag_kwargs of BaseNode.render: the stored expressions resolved against the
\* context when compile_kwargs is set, the stored values otherwise
ResolveKwargs(c, n, ctx) ==
    IF c.compile_kwargs
    THEN [name \in DOMAIN n.kwargs |-> resolve(n.kwargs[name], ctx)]
    ELSE n.kwargs

\* BaseNode.render: resolve the arguments and return what render_tag returns
BaseNode_render(c, n, ctx, h) ==
    render_tag(c, n, ctx, ResolveArgs(c, n, ctx), ResolveKwargs(c, n, ctx), h)

-----------------------------------------------------------------------------
(* Rendering: a node, parsed from a token, rendered again and again in a     *)
(* context whose loop variable x changes between the renders                 *)

\* cls.parse(parser, token) of the class c
parse(c, token) ==
    IF c.kind = "BaseAssignmentOrInclusionNode"
    THEN BaseAssignmentOrInclusionNode_parse(c, token)
    ELSE BaseNode_parse(c, token)

\* the nodes the class c parses from the tokens
NodesParsed(c, tokens) ==
    { parse(c, token).node :
        token \in { t \in tokens :
                      /\ KeywordsLast(IF c.kind = "BaseAssignmentOrInclusionNode"
                                      THEN parse_as_var(t).bits ELSE t)
                      /\ parse(c, t).exc = NoExc } }

\* what the hooks a subclass implements return: the output of render_tag, the
\* dict of get_context_data, the value of get_value
HookTexts == {"Tag output"}
HookData ==
    { EmptyDict, [k \in {"value"} |-> "v1"],
      [k \in {"value", "csrf_token"} |-> IF k = "value" THEN "v1" ELSE "own"] }
HookValues == {"v1", "t1"}

\* the returns of the hooks of class c in one render
Hooks(c) ==
    CASE c.kind = "BaseNode" ->
            { [text |-> t, data |-> EmptyDict, value |-> NoneV] : t \in HookTexts }
      [] c.kind = "BaseInclusionNode" ->
            { [text |-> "", data |-> d, value |-> NoneV] : d \in HookData }
      [] c.kind = "BaseAssignmentOrInclusionNode" ->
            { [text |-> "", data |-> EmptyDict, value |-> v] : v \in HookValues }

\* the values the template engine gives the loop variable x
LoopValues == {"t1", "t2"}

\* the dicts of the contexts rendered in
CsrfDicts == TypedDicts([k \in {"csrf_token"} |-> {NoneV, "tok1"}])

\* the contexts the rendering starts in: one dict, or two
RenderContexts ==
    { [dicts |-> ds, autoescape |-> a] :
        ds \in {<<d>> : d \in CsrfDicts} \cup {<<d, e>> : d \in CsrfDicts, e \in CsrfDicts},
        a \in BOOLEAN }

\* the inclusion tag classes: subclasses that set template_name and implement
\* the hook, and the base classes themselves with a template_name
InclusionClasses ==
    { TagClass(kind, allowed_kwargs(kind), SomeBound(0), SomeBound(0), TRUE, TRUE,
               t[1], t[2]) :
        kind \in {"BaseInclusionNode", "BaseAssignmentOrInclusionNode"},
        t \in { <<NoneV, TRUE>>, <<"t1", TRUE>>, <<"empty", TRUE>>, <<"t1", FALSE>> } }

\* the tokens of the inclusion tags: a template keyword or none, "as x" or not
InclusionTokens ==
    { <<Pos("my_tag")>> \o kws \o tl :
        kws \in { << >>, <<Kw("template", "x")>>, <<Kw("template", "'t1'")>> },
        tl \in { << >>, <<Pos("as"), Pos("x")>> } }

Init ==
    /\ cls \in InclusionClasses
    /\ node \in NodesParsed(cls, InclusionTokens)
    /\ context \in RenderContexts
    /\ out = NoCall
    /\ hist = [renders |-> 0, loads |-> 0, bad_load |-> FALSE]

\* a get_template call with this name does not return a template with nodes
BadLoad(name) == get_template(name).exc # NoExc \/ get_template(name).nodelist = << >>

\* the template engine calls node.render(context)
Render ==
    /\ node.constructed
    /\ hist.renders < MaxRenders
    /\ \E h \in Hooks(cls) :
        LET e == BaseNode_render(cls, node, context, h)
        IN  /\ node' = e.node
            /\ context' = e.context
            /\ out' = [op |-> "render", before |-> context, hook |-> h,
                       tag_args |-> e.tag_args, tag_kwargs |-> e.tag_kwargs,
                       exc |-> e.exc, result |-> e.result,
                       loaded |-> e.loaded, rendered |-> e.rendered]
            /\ hist' = [renders |-> hist.renders + 1,
                        loads |-> hist.loads + Len(e.loaded),
                        bad_load |-> hist.bad_load
                                       \/ \E i \in 1..Len(e.loaded) : BadLoad(e.loaded[i])]
    /\ UNCHANGED cls

\* the template engine gives the loop variable x its next value
SetVar ==
    /\ node.constructed
    /\ \E v \in LoopValues :
        /\ ContextGet(context, "x", NoneV) # v
        /\ context' = ContextSetItem(context, "x", v)
    /\ out' = [op |-> "set"]
    /\ UNCHANGED <<cls, node, hist>>

Next == Render \/ SetVar

Spec == Init /\ [][Next]_vars

\* the tag classes whose arguments are followed through render: BaseNode and
\* BaseInclusionNode, the hook implemented or not, with every setting of
\* compile_args and compile_kwargs and no bound on the arguments
ForwardClasses ==
    { TagClass(kind, IF kind = "BaseNode" THEN <<"limit">> ELSE allowed_kwargs(kind),
               NoneBound, NoneBound, ca, ck, "t1", ov) :
        kind \in {"BaseNode", "BaseInclusionNode"},
        ca \in BOOLEAN, ck \in BOOLEAN, ov \in BOOLEAN }

\* their tokens: up to MaxArgs positional words, a keyword argument or none
ForwardTokens ==
    { <<Pos("my_tag")>> \o [i \in 1..Len(ws) |-> Pos(ws[i])] \o kws :
        ws \in TuplesUpTo({"x", "'t1'"}, MaxArgs),
        kws \in { << >>, <<Kw("limit", "x")>>, <<Kw("template", "x")>> } }

InitForward ==
    /\ cls \in ForwardClasses
    /\ node \in NodesParsed(cls, ForwardTokens)
    /\ context \in {c \in RenderContexts : Len(c.dicts) = 1 /\ c.autoescape}
    /\ out = NoCall
    /\ hist = [renders |-> 0, loads |-> 0, bad_load |-> FALSE]

SpecForward == InitForward /\ [][Next]_vars

-----------------------------------------------------------------------------
(* Claims on parsing and validation *)

\* n positional arguments are outside the class's declared bounds
OutOfBounds(c, n) ==
    \/ (~c.min_args.isNone /\ n < c.min_args.n)
    \/ (~c.max_args.isNone /\ n > c.max_args.n)

\* C1: validate_args raises a template syntax error if and only if the number
\* of positional arguments is below a min_args that is not None or above a
\* max_args that is not None; whatever the keyword arguments are.
C1_ValidateArgsRaisesIffOutOfBounds ==
    out.op = "validate_args" =>
        /\ out.exc \in {NoExc, "TemplateSyntaxError"}
        /\ (out.exc = "TemplateSyntaxError") <=> OutOfBounds(cls, Len(out.args))

\* C1 witness: with min_args None, a call with keyword arguments raised
\* because it had more positional arguments than max_args
C1_Witness ==
    /\ out.op = "validate_args"
    /\ out.exc = "TemplateSyntaxError"
    /\ cls.min_args.isNone
    /\ ~cls.max_args.isNone
    /\ Len(out.args) > cls.max_args.n
    /\ DOMAIN out.kwargs # {}

\* what the parser makes of the token of the last parse call
ParsedToken ==
    IF cls.kind = "BaseAssignmentOrInclusionNode"
    THEN parse_token_kwargs(parse_as_var(out.token).bits, AssignmentAllowed(cls),
                            cls.compile_args, cls.compile_kwargs)
    ELSE parse_token_kwargs(out.token, cls.allowed_kwargs,
                            cls.compile_args, cls.compile_kwargs)

\* the variable name the last parse call was given after "as"
ParsedAsVar ==
    IF cls.kind = "BaseAssignmentOrInclusionNode"
    THEN parse_as_var(out.token).as_var
    ELSE NoneV

\* C6: parse returns a node only when the parsed positional arguments are
\* within [min_args, max_args]; the node carries exactly the parsed tag name,
\* positional arguments, keyword arguments and as_var; otherwise the syntax
\* error propagates and no node is constructed.
C6_ParseValidatesBeforeConstruction ==
    out.op = "parse" =>
        IF ParsedToken.exc = NoExc /\ ~OutOfBounds(cls, Len(ParsedToken.args))
        THEN /\ out.exc = NoExc
             /\ node.constructed
             /\ ~OutOfBounds(cls, Len(node.args))
             /\ node.tag_name = ParsedToken.tag_name
             /\ node.args = ParsedToken.args
             /\ node.kwargs = ParsedToken.kwargs
             /\ node.as_var = ParsedAsVar
        ELSE /\ out.exc = "TemplateSyntaxError"
             /\ ~node.constructed

\* C6 witness: an assignment tag was parsed into a node with as_var, a
\* positional and a keyword argument, under bounds that are both set
C6_Witness ==
    /\ out.op = "parse"
    /\ node.constructed
    /\ node.as_var = "y"
    /\ Len(node.args) = 1
    /\ DOMAIN node.kwargs = {"template"}
    /\ ~cls.min_args.isNone
    /\ ~cls.max_args.isNone

-----------------------------------------------------------------------------
(* Claims on get_context and get_request *)

\* the variable key of the context ctx has the value v: v is stored under key
\* in a dict of the stack with no dict above it holding the key
Visible(ctx, key, v) ==
    \E i \in 1..Len(ctx.dicts) :
        /\ key \in DOMAIN ctx.dicts[i]
        /\ ctx.dicts[i][key] = v
        /\ \A j \in (i + 1)..Len(ctx.dicts) : key \notin DOMAIN ctx.dicts[j]

\* the context ctx has a variable key
HasVariable(ctx, key) == \E i \in 1..Len(ctx.dicts) : key \in DOMAIN ctx.dicts[i]

\* C3: the context get_context returns holds every key of data, has the
\* parent's autoescape flag, has the parent's csrf_token whenever the parent
\* has one that is not None (also when data carries its own), and when the
\* parent has no csrf_token none is added to the data.
C3_GetContextMergesParentAndData ==
    out.op = "get_context" =>
        /\ \A k \in DOMAIN out.data : HasVariable(out.new_context, k)
        /\ out.new_context.autoescape = out.before.autoescape
        /\ \A i \in 1..Len(out.before.dicts) :
              LET d == out.before.dicts[i]
              IN  ( /\ "csrf_token" \in DOMAIN d
                    /\ Visible(out.before, "csrf_token", d["csrf_token"])
                    /\ d["csrf_token"] # NoneV )
                  => Visible(out.new_context, "csrf_token", d["csrf_token"])
        /\ ~HasVariable(out.before, "csrf_token") =>
              \A k \in DOMAIN out.data \cup {"csrf_token"} :
                  /\ HasVariable(out.new_context, k) <=> k \in DOMAIN out.data
                  /\ k \in DOMAIN out.data => Visible(out.new_context, k, out.data[k])

\* C3 witness: the parent's csrf_token, set in a lower dict of a deeper stack,
\* replaced the csrf_token the data carried
C3_Witness ==
    /\ out.op = "get_context"
    /\ Len(out.before.dicts) > 1
    /\ "csrf_token" \notin DOMAIN out.before.dicts[Len(out.before.dicts)]
    /\ Visible(out.before, "csrf_token", "tok2")
    /\ "csrf_token" \in DOMAIN out.data
    /\ out.data["csrf_token"] = "own"
    /\ Visible(out.new_context, "csrf_token", "tok2")
    /\ ~out.before.autoescape

\* C4: get_request raises ImproperlyConfigured if and only if the context has
\* no 'request' variable, otherwise it returns the value stored under
\* 'request'; either way the context is left as it was.
C4_GetRequestRaisesIffNoRequest ==
    out.op = "get_request" =>
        /\ out.exc \in {NoExc, "ImproperlyConfigured"}
        /\ (out.exc = "ImproperlyConfigured") <=> ~HasVariable(out.before, "request")
        /\ out.exc = NoExc => Visible(out.before, "request", out.value)
        /\ context = out.before

\* C4 witness: the request, stored below the top dict, was returned
C4_Witness ==
    /\ out.op = "get_request"
    /\ out.exc = NoExc
    /\ out.value = "req"
    /\ Len(out.before.dicts) > 1
    /\ "request" \notin DOMAIN out.before.dicts[Len(out.before.dicts)]

-----------------------------------------------------------------------------
(* Claims on rendering *)

\* the last step was a render of a node of class kind
Rendered(kind) == out.op = "render" /\ cls.kind = kind

\* C2: render_tag of BaseAssignmentOrInclusionNode dispatches on as_var: with
\* as_var set it stores the value of get_value in the context under as_var,
\* returns the empty string and renders no sub-template; with as_var not set
\* it returns the output of the sub-template, rendered with the value in its
\* context, and assigns nothing in the parent context.
C2_RenderTagDispatchesOnAsVar ==
    (Rendered("BaseAssignmentOrInclusionNode") /\ out.exc = NoExc) =>
        IF node.as_var # NoneV
        THEN /\ Visible(context, node.as_var, out.hook.value)
             /\ out.result = EmptyString
             /\ out.rendered = << >>
             /\ out.loaded = << >>
        ELSE /\ Len(out.rendered) = 1
             /\ out.rendered[1].nodes = node.nodelist
             /\ Visible(out.rendered[1].ctx, context_value_name, out.hook.value)
             /\ IF node.nodelist = << >> THEN out.result = EmptyString
                ELSE /\ out.result.nodes = node.nodelist
                     /\ out.result.ctx = out.rendered[1].ctx
             /\ context = out.before

\* C2 witness: a node with as_var x replaced the value of x in the context by
\* the value of get_value and returned the empty string
C2_Witness ==
    /\ Rendered("BaseAssignmentOrInclusionNode")
    /\ out.exc = NoExc
    /\ node.as_var = "x"
    /\ Visible(out.before, "x", "t2")
    /\ Visible(context, "x", "v1")
    /\ out.result = EmptyString

\* the template name the class and the keyword arguments of the last render name
NamedTemplate ==
    IF "template" \in DOMAIN out.tag_kwargs THEN out.tag_kwargs["template"]
    ELSE cls.template_name

\* C5: on every render of an inclusion node, the first and every later one,
\* the sub-template rendered is the one named by the resolved 'template'
\* keyword argument of that render, or else by the class's template_name.
C5_RendersTemplateNamedAtEachRender ==
    (out.op = "render" /\ out.rendered # << >>) =>
        /\ NamedTemplate \in TemplateNames
        /\ out.rendered[1].nodes = TemplateNodes(NamedTemplate)

\* the node renders its sub-template on every render
OnInclusionPath ==
    \/ cls.kind = "BaseInclusionNode"
    \/ cls.kind = "BaseAssignmentOrInclusionNode" /\ node.as_var = NoneV

\* after the renders so far, get_template was called once and its node list
\* is on the node; a later render called it no more and rendered that list
LoadedOnce ==
    (OnInclusionPath /\ ~hist.bad_load /\ hist.renders >= 1) =>
        /\ hist.loads = 1
        /\ node.has_nodelist
        /\ node.nodelist # << >>
        /\ (out.op = "render" /\ hist.renders >= 2) =>
              /\ out.loaded = << >>
              /\ \A i \in 1..Len(out.rendered) : out.rendered[i].nodes = node.nodelist

\* a step leaves a cached, non-empty node list as it is
KeepsNodeList ==
    (node.has_nodelist /\ node.nodelist # << >>) =>
        /\ node'.nodelist = node.nodelist
        /\ hist'.loads = hist.loads

\* C7: over the renders of one inclusion node whose loaded template has a
\* non-empty node list, get_template is called exactly once, on the first
\* render, and every later render reuses the cached node list.
C7_TemplateLoadedOnce == [] LoadedOnce /\ [][KeepsNodeList]_vars

\* C7 witness: a second or later render that rendered the cached node list
C7_Witness ==
    /\ Rendered("BaseInclusionNode")
    /\ hist.renders >= 2
    /\ ~hist.bad_load
    /\ hist.loads = 1
    /\ out.exc = NoExc
    /\ out.loaded = << >>
    /\ Len(out.rendered) = 1
    /\ out.rendered[1].nodes = <<"n1">>

\* the contexts a and b differ at most in the variable name
SameExceptAt(a, b, name) ==
    /\ a.autoescape = b.autoescape
    /\ Len(a.dicts) = Len(b.dicts)
    /\ \A i \in 1..Len(a.dicts) :
          \A k \in ((DOMAIN a.dicts[i]) \cup (DOMAIN b.dicts[i])) \ {name} :
              /\ k \in DOMAIN a.dicts[i]
              /\ k \in DOMAIN b.dicts[i]
              /\ a.dicts[i][k] = b.dicts[i][k]

\* C9: a render of a BaseInclusionNode, or of a BaseAssignmentOrInclusionNode
\* without as_var, leaves every variable of the parent context unchanged; a
\* render with as_var changes the parent context at the name as_var only.
C9_RenderChangesOnlyAsVar ==
    out.op = "render" =>
        IF cls.kind = "BaseAssignmentOrInclusionNode" /\ node.as_var # NoneV
        THEN SameExceptAt(out.before, context, node.as_var)
        ELSE context = out.before

\* C9 witness: a sub-template was rendered with data that carries a
\* csrf_token of its own, from a parent context that has a csrf_token and x
C9_Witness ==
    /\ Rendered("BaseInclusionNode")
    /\ out.exc = NoExc
    /\ Len(out.rendered) = 1
    /\ "csrf_token" \in DOMAIN out.hook.data
    /\ Visible(out.before, "csrf_token", "tok1")
    /\ Visible(out.before, "x", "t1")
    /\ Visible(out.rendered[1].ctx, "csrf_token", "tok1")

\* C8: render passes render_tag as many positional arguments as the node
\* stores, in their order, and the same keyword names; each is the stored
\* expression resolved against the context when compile_args (compile_kwargs)
\* is set and the stored value otherwise; render returns what render_tag returns.
C8_RenderForwardsArguments ==
    out.op = "render" =>
        /\ Len(out.tag_args) = Len(node.args)
        /\ \A i \in 1..Len(node.args) :
              out.tag_args[i] = IF cls.compile_args THEN resolve(node.args[i], out.before)
                                ELSE node.args[i]
        /\ DOMAIN out.tag_kwargs = DOMAIN node.kwargs
        /\ \A k \in DOMAIN node.kwargs :
              out.tag_kwargs[k] = IF cls.compile_kwargs
                                  THEN resolve(node.kwargs[k], out.before)
                                  ELSE node.kwargs[k]
        /\ (cls.kind = "BaseNode" /\ cls.overrides) =>
              out.exc = NoExc /\ out.result = TagOutput(out.hook.text)
        /\ (cls.kind = "BaseNode" /\ ~cls.overrides) => out.exc = "NotImplementedError"

\* C8 witness: two different compiled positional arguments were resolved while
\* the keyword argument was passed on as stored
C8_Witness ==
    /\ Rendered("BaseNode")
    /\ cls.compile_args
    /\ ~cls.compile_kwargs
    /\ Len(out.tag_args) >= 2
    /\ out.tag_args[1] = "t2"
    /\ out.tag_args[2] = "t1"
    /\ DOMAIN out.tag_kwargs = {"limit"}
    /\ out.tag_kwargs["limit"] = "x"
    /\ out.exc = NoExc

====
